---- MODULE Spec2Model ----
(***************************************************************************)
(* Model of the Grocy -> Mealie synchronisation daemon (src/main.py).      *)
(*                                                                         *)
(* Strings are sequences of one-character strings, so that strip(),        *)
(* lower() and the substring test are computed and not assumed.  A Python  *)
(* value that may be None or absent is a sequence of length at most one:   *)
(* None == <<>>, Some(x) == <<x>>.                                         *)
(***************************************************************************)
EXTENDS Naturals, Sequences, FiniteSets, TLC

\* ------------------------------------------------------------------ bounds
\* the destination service has at most MaxPages pages
MaxPages == 2
\* a page of the destination service holds at most MaxItems entries
MaxItems == 2
\* the inventory system reports at most MaxProducts missing products
MaxProducts == 2

\* ------------------------------------------------------- program constants
PerPage == 200
INTERVAL == 600
Quantity == 1
MEALIE_SHOPPING_LIST_ID == "L"

\* ------------------------------------------------------------ Python values
None == <<>>
Some(x) == <<x>>

\* truth value of an optional string or optional identifier: None and the
\* empty string are false
Truthy(o) == o # None /\ o[1] # <<>>

\* ------------------------------------------------------------------ strings
IsSpace(c) == c = " "

LowerChar(c) ==
  CASE c = "H" -> "h"
    [] c = "T" -> "t"
    [] c = "M" -> "m"
    [] OTHER -> c

\* str.lower()
Lower(s) == [i \in 1..Len(s) |-> LowerChar(s[i])]

RECURSIVE LStrip(_)
LStrip(s) == IF s # <<>> /\ IsSpace(Head(s)) THEN LStrip(Tail(s)) ELSE s

RECURSIVE RStrip(_)
RStrip(s) ==
  IF s # <<>> /\ IsSpace(s[Len(s)]) THEN RStrip(SubSeq(s, 1, Len(s) - 1)) ELSE s

\* str.strip()
Strip(s) == RStrip(LStrip(s))

\* Python's  s in t  on strings: s is a contiguous substring of t
IsSubstring(s, t) ==
  \E i \in 0..(Len(t) - Len(s)) : SubSeq(t, i + 1, i + Len(s)) = s

\* all sequences over S of length at most n
SeqsUpTo(S, n) == UNION {[1..k -> S] : k \in 0..n}

\* Python's  a or b  on optional strings
PyOr(a, b) == IF Truthy(a) THEN a ELSE b

\* truth value of the JSON value under "next": an absent key, null, the
\* empty string and false are false; a non-empty link is true
PyTruth(v) == v \notin {"absent", "null", "", "false"}

\* --------------------------------------------------- destination test data
\* one entry of the destination service's "items" collection
Entry(id, list, display, foodId, food) ==
  [id |-> id, shoppingListId |-> list, display |-> display,
   foodId |-> foodId, food |-> food]

Food(id, name) == [id |-> id, name |-> name]

Entries ==
  { \* on the list, display "Ht " (key "ht")
    Entry(Some(<<"i1">>), "L", Some(<<"H", "t", " ">>), Some(<<"f1">>), None),
    \* on the list, display "hT" (the same key, another case), food ignored
    Entry(Some(<<"i2">>), "L", Some(<<"h", "T">>), None,
          Some(Food(Some(<<"f2">>), Some(<<"M">>)))),
    \* on another list
    Entry(Some(<<"i3">>), "X", Some(<<"T">>), None, None),
    \* on the list, whitespace-only display, food named "T"
    Entry(Some(<<"i4">>), "L", Some(<<" ">>), None,
          Some(Food(Some(<<"f4">>), Some(<<"T">>)))),
    \* on the list, no display, food named " M" (key "m")
    Entry(Some(<<"i5">>), "L", None, None,
          Some(Food(Some(<<"f5">>), Some(<<" ", "M">>)))),
    \* on the list, empty display, no food
    Entry(Some(<<"i6">>), "L", Some(<<>>), None, None) }

NextValues == {"absent", "null", "", "false", "/items?page=next"}

\* the JSON objects the destination service may answer with: the value under
\* "next" and the length of "items"; the entries themselves are drawn from
\* Entries one by one as the loop over the items reads them
Bodies == [next : NextValues, count : 0..MaxItems]

\* ------------------------------------------- get_mealie_shopping_list_items
\* (it.get("food") or {}).get(field)
FoodField(it, field) == IF it.food = None THEN None ELSE it.food[1][field]

\* (it.get("display") or (it.get("food") or {}).get("name") or "").strip()
DisplayOf(it) ==
  Strip(PyOr(PyOr(it.display, FoodField(it, "name")), Some(<<>>))[1])

\* mutant: an entry under a key that is taken is not stored
PutKeepsFirst(d, key, value) ==
  [k \in DOMAIN d \cup {key} |-> IF k \in DOMAIN d THEN d[k] ELSE value]

\* items_dict[key] = value
Put(d, key, value) ==
  [k \in DOMAIN d \cup {key} |-> IF k = key THEN value ELSE d[k]]

\* mutant: no filter on shoppingListId
OnListAny(it, shopping_list_id) == TRUE

\* the filter on shoppingListId
OnList(it, shopping_list_id) == it.shoppingListId = shopping_list_id

\* one iteration of  for it in items
AddItem(d, it, shopping_list_id) ==
  IF ~OnList(it, shopping_list_id) THEN d
  ELSE LET display == DisplayOf(it) IN
       IF display = <<>> THEN d
       ELSE Put(d, Lower(display),
                [display |-> display,
                 foodId  |-> PyOr(it.foodId, FoodField(it, "id")),
                 itemId  |-> it.id])

\* if not data.get("next"): break
LastPage(body) == ~PyTruth(body.next)

EmptyDict == [k \in {} |-> None]

\* ------------------------------------------------------- inventory test data
\* one record of volatile.missing_products
Missing(id, name) == [id |-> id, name |-> name]

MissingItems ==
  { Missing(Some(<<"p1">>), Some(<<"T">>)),
    Missing(Some(<<"p2">>), Some(<<"h", "T", " ">>)),
    \* no id; the name " hM" (key "hm")
    Missing(None, Some(<<" ", "h", "M">>)),
    \* empty name
    Missing(Some(<<"p4">>), Some(<<>>)),
    \* no name
    Missing(Some(<<"p5">>), None),
    \* whitespace-only name
    Missing(Some(<<"p6">>), Some(<<" ">>)) }

\* the values of  getattr(volatile, "missing_products", [])  : the attribute
\* is absent or None, or it is a list
Volatiles == {None} \cup {Some(l) : l \in SeqsUpTo(MissingItems, MaxProducts)}

\* ---------------------------------------------------- get_understock_products
\* mutant: an item without an id is dropped as well
RECURSIVE ProductsWithId(_)
ProductsWithId(missing_products) ==
  IF missing_products = <<>> THEN <<>>
  ELSE LET item == Head(missing_products) IN
       IF Truthy(item.name) /\ item.id # None
       THEN <<[id |-> item.id, name |-> item.name[1]]>>
              \o ProductsWithId(Tail(missing_products))
       ELSE ProductsWithId(Tail(missing_products))

RECURSIVE Products(_)
Products(missing_products) ==
  IF missing_products = <<>> THEN <<>>
  ELSE LET item == Head(missing_products) IN
       IF Truthy(item.name)
       THEN <<[id |-> item.id, name |-> item.name[1]]>>
              \o Products(Tail(missing_products))
       ELSE Products(Tail(missing_products))

\* getattr(volatile, "missing_products", []) or []
MissingProducts(volatile) == IF volatile = None THEN <<>> ELSE volatile[1]

\* ------------------------------------------------ add_to_mealie_shopping_list
\* mutant: the note carries the normalised key
PayloadKey(item_name, shopping_list_id, quantity) ==
  [quantity |-> quantity, note |-> Lower(Strip(item_name)),
   shoppingListId |-> shopping_list_id]

\* the JSON body of the creation request
Payload(item_name, shopping_list_id, quantity) ==
  [quantity |-> quantity, note |-> Strip(item_name),
   shoppingListId |-> shopping_list_id]

\* what the destination service may answer to a creation request: a status
\* code, or no answer at all (requests.post raises a RequestException)
PostOutcomes ==
  {[raised |-> "", status |-> c] : c \in {200, 201, 204, 500}}
    \cup {[raised |-> "ConnectionError", status |-> 0]}

\* the exception classes that are requests.RequestException
RequestExceptions == {"ConnectionError", "HTTPError"}

\* mutant: every 2xx status counts as success
AddResultAny2xx(outcome) ==
  IF outcome.raised \in RequestExceptions THEN FALSE
  ELSE outcome.status \in 200..299

\* resp.status_code in (200, 201); a RequestException gives False
AddResult(outcome) ==
  IF outcome.raised \in RequestExceptions THEN FALSE
  ELSE outcome.status \in {200, 201}

\* ------------------------------------------------------------------- main
\* existing_keys = {k.strip().lower() for k in mealie_items}
ExistingKeys(d) == {Lower(Strip(k)) : k \in DOMAIN d}

\* name_key = item.get("name", "").strip().lower()
NameKey(item) == Lower(Strip(item.name))

\* mutant: the containment is tested in the other direction
RepresentedReverse(name_key, existing_keys) ==
  \E key \in existing_keys : IsSubstring(key, name_key)

\* any(name_key in key for key in existing_keys)
Represented(name_key, existing_keys) ==
  \E key \in existing_keys : IsSubstring(name_key, key)

\* mutant: the handler encloses the fetch alone, and the cycle goes on
OnRaiseGoesOn(cls) == IF cls \in RequestExceptions THEN "source" ELSE "crashed"

\* mutant: the handler starts the next cycle at once (continue)
OnRaiseNoSleep(cls) == IF cls \in RequestExceptions THEN "fetch" ELSE "crashed"

\* except requests.RequestException  at the top of the loop body: where
\* control goes when an exception of class cls reaches main
OnRaise(cls) == IF cls \in RequestExceptions THEN "sleep" ELSE "crashed"

\* mutant: get_understock_products has no handler
SourceCatchesNothing(cls) == FALSE

\* except requests.RequestException  in get_understock_products
SourceCatches(cls) == cls \in RequestExceptions

\* for item in understock : after n_done of n products the loop goes on, or
\* ends and main reaches the sleep
LoopNext(n_done, n) == IF n_done < n THEN "reconcile" ELSE "sleep"

\* mutant: a failed add ends the loop (break)
AfterAddBreaks(ok, n_done, n) == IF ok THEN LoopNext(n_done, n) ELSE "sleep"

\* the end of an iteration that called the add: its result is only logged
AfterAdd(ok, n_done, n) == LoopNext(n_done, n)

\* ------------------------------------------------------------------ state
VARIABLES
  pc,            \* where the program is: "fetch", "items", "source",
                 \* "reconcile", "sleep", or "crashed" (an exception left
                 \* main)
  page,          \* get_mealie_shopping_list_items: the page to request next
  items_dict,    \* get_mealie_shopping_list_items: the lookup being built
  data,          \* the page being read: its "next" and the number of items
                 \* still to read (None outside the loop over the items)
  it,            \* the entry the loop over the items read last, or None
  seen,          \* the entries read in this fetch
  mealie_items,  \* main: the lookup returned by the fetch
  understock,    \* main: the products returned by get_understock_products
  idx,           \* main: number of products of understock already handled
  calls,         \* the calls of add_to_mealie_shopping_list and their results
  http,          \* what this cycle sent to the two services, and its sleep
  exc,           \* the class of the exception raised in this cycle, or ""
  health,        \* health_check: the dict it builds, or None outside it
  exit_code,     \* the exit status of the process once it has ended, or None
  mealie,        \* the destination service: the entries it holds
  grocy          \* the inventory system: its list of missing products

vars ==
  <<pc, page, items_dict, data, it, seen, mealie_items, understock, idx,
    calls, http, exc, health, exit_code, mealie, grocy>>

\* what the loop of main neither reads nor writes: the state of the health
\* check and of the two services
env == <<health, exit_code, mealie, grocy>>

\* what the destination service may answer to the request for page p: no
\* answer (requests.get raises), an error status, a JSON object, or JSON that
\* is not an object (body None)
GetReplies(p) ==
  {[raised |-> "ConnectionError", status |-> 0, body |-> None],
   [raised |-> "", status |-> 500, body |-> None],
   [raised |-> "", status |-> 200, body |-> None]}
    \cup {[raised |-> "", status |-> 200, body |-> Some(b)] :
            b \in {c \in Bodies : p < MaxPages \/ ~PyTruth(c.next)}}

\* the exception the fetch of one page raises on this reply, or "":
\* requests.get, then resp.raise_for_status(), then data.get on the JSON
GetRaises(reply) ==
  IF reply.raised # "" THEN reply.raised
  ELSE IF reply.status >= 400 THEN "HTTPError"
  ELSE IF reply.body = None THEN "AttributeError"
  ELSE ""

\* what the inventory client may do on get_volatile_stock(): raise a
\* RequestException, raise an error of its own, or return the view
VolatileReplies ==
  {[raised |-> "ConnectionError", volatile |-> None],
   [raised |-> "GrocyError", volatile |-> None]}
    \cup {[raised |-> "", volatile |-> v] : v \in Volatiles}

\* a page request that was answered with a JSON object, and one that raised
GetEvent(p, next) ==
  [op |-> "GET", page |-> p, per_page |-> PerPage, result |-> "ok",
   next |-> next]

GetFailed(p, cls) ==
  [op |-> "GET", page |-> p, per_page |-> PerPage, result |-> cls]

Init ==
  /\ pc = "fetch"
  /\ page = 1
  /\ items_dict = EmptyDict
  /\ data = None
  /\ it = None
  /\ seen = {}
  /\ mealie_items = EmptyDict
  /\ understock = <<>>
  /\ idx = 0
  /\ calls = <<>>
  /\ http = <<>>
  /\ exc = ""
  /\ health = None
  /\ exit_code = None
  /\ mealie = {}
  /\ grocy = <<>>

\* the first request of a cycle starts the cycle's log
Log == IF page = 1 THEN <<>> ELSE http

\* get_mealie_shopping_list_items requests a page and gets a JSON object,
\* the answer being one of replies
RequestPage(replies) ==
  /\ pc = "fetch"
  /\ \E reply \in replies :
       /\ GetRaises(reply) = ""
       /\ data' = Some([next |-> reply.body[1].next,
                        todo |-> reply.body[1].count])
       /\ http' = Append(Log, GetEvent(page, reply.body[1].next))
  /\ pc' = "items"
  /\ exc' = ""
  /\ UNCHANGED <<page, items_dict, it, seen, mealie_items, understock, idx,
                 calls>>

FetchPage == RequestPage(GetReplies(page)) /\ UNCHANGED env

\* one iteration of  for it in items , the entry being one of entries
LoopItem(entries) ==
  /\ pc = "items"
  /\ data[1].todo > 0
  /\ \E e \in entries :
       /\ it' = Some(e)
       /\ seen' = seen \cup {e}
       /\ items_dict' = AddItem(items_dict, e, MEALIE_SHOPPING_LIST_ID)
  /\ data' = Some([data[1] EXCEPT !.todo = @ - 1])
  /\ UNCHANGED <<pc, page, mealie_items, understock, idx, calls, http, exc>>

ReadItem == LoopItem(Entries) /\ UNCHANGED env

\* the end of a page: the next page is requested, or the loop is left and
\* the lookup returned to main
EndPage ==
  /\ pc = "items"
  /\ data[1].todo = 0
  /\ IF LastPage(data[1])
     THEN /\ pc' = "source"
          /\ mealie_items' = items_dict
          /\ page' = page
     ELSE /\ pc' = "fetch"
          /\ page' = page + 1
          /\ UNCHANGED mealie_items
  /\ UNCHANGED <<items_dict, data, it, seen, understock, idx, calls, http,
                 exc>>
  /\ UNCHANGED env

\* the request for a page raises: the exception leaves the function and
\* reaches the handler of main
PageRaises(replies) ==
  /\ pc = "fetch"
  /\ \E reply \in replies :
       LET cls == GetRaises(reply) IN
       /\ cls # ""
       /\ exc' = cls
       /\ pc' = OnRaise(cls)
       /\ http' = Append(Log, GetFailed(page, cls))
  \* the frame of the function is gone, and with it the partial lookup
  /\ items_dict' = EmptyDict
  /\ data' = None
  /\ it' = None
  /\ seen' = {}
  /\ UNCHANGED <<page, mealie_items, understock, idx, calls>>

FetchRaises == PageRaises(GetReplies(page)) /\ UNCHANGED env

VolatileEvent(result, volatile) ==
  [op |-> "volatile", result |-> result, missing_products |-> volatile]

\* mutant: the request replaces an entry instead of creating one
PostEventPut(json, outcome) ==
  [op |-> "PUT", json |-> json, outcome |-> outcome]

PostEvent(json, outcome) == [op |-> "POST", json |-> json, outcome |-> outcome]

SleepEvent == [op |-> "sleep", seconds |-> INTERVAL]

\* get_understock_products() returns: on a RequestException the empty list,
\* otherwise the products of the view; main then enters its loop
ReadSource(replies) ==
  /\ pc = "source"
  /\ \E reply \in replies :
       /\ reply.raised = "" \/ SourceCatches(reply.raised)
       /\ LET products == IF reply.raised # "" THEN <<>>
                          ELSE Products(MissingProducts(reply.volatile))
          IN /\ understock' = products
             /\ pc' = LoopNext(0, Len(products))
       /\ http' = Append(http, VolatileEvent(reply.raised, reply.volatile))
  /\ idx' = 0
  /\ items_dict' = EmptyDict
  /\ data' = None
  /\ it' = None
  /\ seen' = {}
  /\ UNCHANGED <<page, mealie_items, calls, exc>>

SourceRead == ReadSource(VolatileReplies) /\ UNCHANGED env

\* get_volatile_stock() raises an exception that get_understock_products
\* does not catch: it reaches the handler of main
SourceEscapes(replies) ==
  /\ pc = "source"
  /\ \E reply \in replies :
       /\ reply.raised # ""
       /\ ~SourceCatches(reply.raised)
       /\ exc' = reply.raised
       /\ pc' = OnRaise(reply.raised)
       /\ http' = Append(http, VolatileEvent(reply.raised, reply.volatile))
  /\ items_dict' = EmptyDict
  /\ data' = None
  /\ it' = None
  /\ seen' = {}
  /\ UNCHANGED <<page, mealie_items, understock, idx, calls>>

SourceRaises == SourceEscapes(VolatileReplies) /\ UNCHANGED env

\* one iteration of  for item in understock  that finds the product on the
\* destination list: continue
SkipItem ==
  /\ pc = "reconcile"
  /\ LET item == understock[idx + 1] IN
     Represented(NameKey(item), ExistingKeys(mealie_items))
  /\ idx' = idx + 1
  /\ pc' = LoopNext(idx + 1, Len(understock))
  /\ UNCHANGED <<page, items_dict, data, it, seen, mealie_items, understock,
                 calls, http, exc>>
  /\ UNCHANGED env

\* one iteration that calls add_to_mealie_shopping_list: one POST, whose
\* outcome, one of outcomes, decides the result
AddProduct(outcomes) ==
  /\ pc = "reconcile"
  /\ LET item == understock[idx + 1] IN
     /\ ~Represented(NameKey(item), ExistingKeys(mealie_items))
     /\ \E outcome \in outcomes :
          LET ok == AddResult(outcome) IN
          /\ http' = Append(http,
                       PostEvent(Payload(item.name, MEALIE_SHOPPING_LIST_ID,
                                         Quantity), outcome))
          /\ calls' = Append(calls, [item |-> idx + 1, item_name |-> item.name,
                                     ok |-> ok])
          /\ pc' = AfterAdd(ok, idx + 1, Len(understock))
  /\ idx' = idx + 1
  /\ UNCHANGED <<page, items_dict, data, it, seen, mealie_items, understock, exc>>

AddItemToList == AddProduct(PostOutcomes) /\ UNCHANGED env

\* time.sleep(INTERVAL), then the next iteration of  while True ; the locals
\* of the cycle that ended are dead (each is assigned before it is read
\* again) and are cleared here
Sleep ==
  /\ pc = "sleep"
  /\ http' = Append(http, SleepEvent)
  /\ pc' = "fetch"
  /\ page' = 1
  /\ items_dict' = EmptyDict
  /\ data' = None
  /\ it' = None
  /\ seen' = {}
  /\ mealie_items' = EmptyDict
  /\ understock' = <<>>
  /\ idx' = 0
  /\ calls' = <<>>
  /\ UNCHANGED exc
  /\ UNCHANGED env

Next ==
  \/ FetchPage
  \/ ReadItem
  \/ EndPage
  \/ FetchRaises
  \/ SourceRead
  \/ SourceRaises
  \/ SkipItem
  \/ AddItemToList
  \/ Sleep

Spec == Init /\ [][Next]_vars

\* ------------------------------------------------------------ health_check
\* the dict health_check starts from
HealthStart ==
  [status |-> "healthy",
   grocy   |-> [reachable |-> FALSE, error |-> None],
   mealie  |-> [reachable |-> FALSE, error |-> None]]

\* the probe of a service succeeded
ProbeOk(h, service) ==
  [h EXCEPT ![service] = [reachable |-> TRUE, error |-> None]]

\* the handler of a probe: the error is recorded and the status is unhealthy
ProbeFailed(h, service, cls) ==
  [h EXCEPT ![service] = [reachable |-> FALSE, error |-> Some(cls)],
            !.status = "unhealthy"]

\* except requests.RequestException  around each probe
HealthCatches(cls) == cls \in RequestExceptions

\* params={"page": 1, "per_page": 1}
HealthPage == 1
HealthPerPage == 1

\* what the destination service may answer to the probe: no answer, or a
\* status code (the body is not read)
ProbeReplies ==
  {[raised |-> "ConnectionError", status |-> 0]}
    \cup {[raised |-> "", status |-> c] : c \in {200, 401, 500}}

\* the exception the probe raises on this reply, or "": requests.get, then
\* resp.raise_for_status()
ProbeRaises(reply) ==
  IF reply.raised # "" THEN reply.raised
  ELSE IF reply.status >= 400 THEN "HTTPError"
  ELSE ""

ProbeEvent(result) ==
  [op |-> "GET", page |-> HealthPage, per_page |-> HealthPerPage,
   result |-> result]

\* the process was started with the argument "health"
HealthInit ==
  /\ pc = "health_grocy"
  /\ health = Some(HealthStart)
  /\ page = 1
  /\ items_dict = EmptyDict
  /\ data = None
  /\ it = None
  /\ seen = {}
  /\ mealie_items = EmptyDict
  /\ understock = <<>>
  /\ idx = 0
  /\ calls = <<>>
  /\ http = <<>>
  /\ exc = ""
  /\ exit_code = None
  /\ mealie = {}
  /\ grocy = <<>>

\* grocy.get_volatile_stock() returns, or raises what the handler catches
HealthGrocy ==
  /\ pc = "health_grocy"
  /\ \E reply \in VolatileReplies :
       /\ reply.raised = "" \/ HealthCatches(reply.raised)
       /\ health' = Some(IF reply.raised = ""
                         THEN ProbeOk(health[1], "grocy")
                         ELSE ProbeFailed(health[1], "grocy", reply.raised))
       /\ http' = Append(http, VolatileEvent(reply.raised, reply.volatile))
  /\ pc' = "health_mealie"
  /\ UNCHANGED <<page, items_dict, data, it, seen, mealie_items, understock,
                 idx, calls, exc, exit_code, mealie, grocy>>

\* grocy.get_volatile_stock() raises what the handler does not catch: the
\* exception leaves health_check and the module, and the interpreter ends
\* with status 1
HealthGrocyRaises ==
  /\ pc = "health_grocy"
  /\ \E reply \in VolatileReplies :
       /\ reply.raised # ""
       /\ ~HealthCatches(reply.raised)
       /\ exc' = reply.raised
       /\ http' = Append(http, VolatileEvent(reply.raised, reply.volatile))
  /\ health' = None
  /\ exit_code' = Some(1)
  /\ pc' = "crashed"
  /\ UNCHANGED <<page, items_dict, data, it, seen, mealie_items, understock,
                 idx, calls, mealie, grocy>>

\* the probe of the destination service
HealthMealie ==
  /\ pc = "health_mealie"
  /\ \E reply \in ProbeReplies :
       LET cls == ProbeRaises(reply) IN
       /\ health' = Some(IF cls = ""
                         THEN ProbeOk(health[1], "mealie")
                         ELSE ProbeFailed(health[1], "mealie", cls))
       /\ http' = Append(http, ProbeEvent(IF cls = "" THEN "ok" ELSE cls))
  /\ pc' = "health_exit"
  /\ UNCHANGED <<page, items_dict, data, it, seen, mealie_items, understock,
                 idx, calls, exc, exit_code, mealie, grocy>>

\* sys.exit(0) if the status is healthy, sys.exit(1) otherwise
HealthExit ==
  /\ pc = "health_exit"
  /\ exit_code' = Some(IF health[1].status = "healthy" THEN 0 ELSE 1)
  /\ pc' = "exited"
  /\ UNCHANGED <<page, items_dict, data, it, seen, mealie_items, understock,
                 idx, calls, http, exc, health, mealie, grocy>>

HealthNext ==
  \/ HealthGrocy
  \/ HealthGrocyRaises
  \/ HealthMealie
  \/ HealthExit

HealthSpec == HealthInit /\ [][HealthNext]_vars

\* ------------------------------------------- the daemon and its two services
\* the entry the destination service holds after a creation request with
\* this body: on the list named, the note as its display text, no food
Created(json) ==
  Entry(Some(<<"n">> \o json.note), json.shoppingListId, Some(json.note),
        None, None)

\* the entries of the destination service after it answered a request
Serve(entries, event) ==
  IF event.op = "POST" /\ event.outcome.raised = ""
       /\ event.outcome.status \in {200, 201}
  THEN entries \cup {Created(event.json)}
  ELSE entries

\* what the destination service holds when the daemon starts: nothing, an
\* entry "Ht " on the list, or an entry "T" on another list
InitialLists ==
  {{}} \cup {{e} : e \in {x \in Entries : x.id \in {Some(<<"i1">>),
                                                     Some(<<"i3">>)}}}

\* the missing-products lists of the inventory system: out of a product "T"
\* and a product with the whitespace-only name " "
Inventories ==
  LET t     == Missing(Some(<<"p1">>), Some(<<"T">>))
      blank == Missing(Some(<<"p6">>), Some(<<" ">>))
  IN {<<>>, <<t>>, <<blank>>, <<t, blank>>}

\* the answers to the request for page p: the failures of GetReplies, or
\* all the entries held (fewer than a page) and no next page
ServedPages(p) ==
  {r \in GetReplies(p) : GetRaises(r) # ""}
    \cup {[raised |-> "", status |-> 200,
           body |-> Some([next |-> "null", count |-> Cardinality(mealie)])]}

\* what get_volatile_stock() does: the failures of VolatileReplies, or the
\* view of the inventory as it is
ServedVolatiles ==
  {r \in VolatileReplies : r.raised # ""}
    \cup {[raised |-> "", volatile |-> Some(grocy)]}

SystemInit ==
  /\ pc = "fetch"
  /\ page = 1
  /\ items_dict = EmptyDict
  /\ data = None
  /\ it = None
  /\ seen = {}
  /\ mealie_items = EmptyDict
  /\ understock = <<>>
  /\ idx = 0
  /\ calls = <<>>
  /\ http = <<>>
  /\ exc = ""
  /\ health = None
  /\ exit_code = None
  /\ mealie \in InitialLists
  /\ grocy \in Inventories

ServedFetchPage == RequestPage(ServedPages(page)) /\ UNCHANGED env

\* the service lists each entry it holds once
ServedReadItem == LoopItem(mealie \ seen) /\ UNCHANGED env

ServedFetchRaises == PageRaises(ServedPages(page)) /\ UNCHANGED env

ServedSourceRead == ReadSource(ServedVolatiles) /\ UNCHANGED env

ServedSourceRaises == SourceEscapes(ServedVolatiles) /\ UNCHANGED env

\* the creation request reaches the service
ServedAdd ==
  /\ AddProduct(PostOutcomes)
  /\ mealie' = Serve(mealie, http'[Len(http')])
  /\ UNCHANGED <<health, exit_code, grocy>>

\* the steps of the daemon
DaemonNext ==
  \/ ServedFetchPage
  \/ ServedReadItem
  \/ EndPage
  \/ ServedFetchRaises
  \/ ServedSourceRead
  \/ ServedSourceRaises
  \/ SkipItem
  \/ ServedAdd
  \/ Sleep

\* while the daemon sleeps the stock changes
InventoryChanges ==
  /\ pc = "sleep"
  /\ grocy' \in Inventories \ {grocy}
  /\ UNCHANGED <<pc, page, items_dict, data, it, seen, mealie_items,
                 understock, idx, calls, http, exc, health, exit_code,
                 mealie>>

SystemNext == DaemonNext \/ InventoryChanges

SystemSpec == SystemInit /\ [][SystemNext]_vars

\* a step of the daemon that is possible is taken: every request returns or
\* times out, and every sleep ends
FairSystemSpec == SystemSpec /\ WF_vars(DaemonNext)

\* ------------------------------------------------------------------ claims
IsGet(e) == e.op = "GET"
IsPost(e) == e.op = "POST"
IsSleep(e) == e.op = "sleep"
IsVolatile(e) == e.op = "volatile"

\* the creation requests of the cycle, in the order sent
Posts == SelectSeq(http, IsPost)

\* C1: in a cycle where a page request of the destination read fails with a
\* transport error or an error status, on the first page or a later one,
\* nothing but the sleep follows the failed request: no source read, no
\* creation request, no lookup handed to the reconciler; the loop is at its
\* sleep or has slept and is at the start of the next cycle.
C1_DestinationFailureAborts ==
  \A j \in 1..Len(http) :
    (IsGet(http[j]) /\ http[j].result \in {"ConnectionError", "HTTPError"}) =>
      /\ \A k \in 1..(j - 1) : IsGet(http[k]) /\ http[k].result = "ok"
      /\ \A k \in (j + 1)..Len(http) : IsSleep(http[k])
      /\ calls = <<>>
      /\ understock = <<>>
      /\ mealie_items = EmptyDict
      /\ \/ pc = "sleep" /\ Len(http) = j
         \/ pc = "fetch" /\ page = 1 /\ Len(http) = j + 1

\* a cycle whose second page request failed has slept and the next cycle is
\* about to start
C1_Witness ==
  /\ pc = "fetch"
  /\ Len(http) = 3
  /\ IsGet(http[2]) /\ http[2].page = 2 /\ http[2].result = "HTTPError"
  /\ IsSleep(http[3])

\* C2: every failure raised during a cycle, whatever its kind, is caught at
\* the top of the loop body: after a failure the loop is at its sleep or at
\* the start of the next cycle, and the process has not terminated.
C2_EveryFailureCaught == exc # "" => pc \in {"sleep", "fetch"}

\* the product's name, trimmed and lowercased, is a contiguous substring of
\* a key of the lookup that main holds
OnDestination(product) ==
  \E key \in DOMAIN mealie_items :
    IsSubstring(Lower(Strip(product.name)), key)

NotOnDestination(product) == ~OnDestination(product)

\* the positions in understock of the products the add was called for
Added == {calls[k].item : k \in 1..Len(calls)}

\* main is inside a cycle's loop over the products, or has just left it
InCycle == pc \in {"reconcile", "sleep"}

\* C3: a product already handled in this cycle was skipped (no add was
\* called for it) if and only if its trimmed, lowercased name is a substring
\* of a key of the lookup fetched at the start of the cycle; containment the
\* other way round does not count, and neither do the adds issued earlier.
C3_SkipRule ==
  InCycle =>
    \A j \in 1..idx : (j \notin Added) <=> OnDestination(understock[j])

\* the lookup holds "ht" and "m"; "T" was skipped ("t" is inside "ht") and
\* " hM" was added although the key "m" is inside "hm"
C3_Witness ==
  /\ pc = "sleep"
  /\ DOMAIN mealie_items = {<<"h", "t">>, <<"m">>}
  /\ Len(understock) = 2 /\ idx = 2
  /\ understock[1].name = <<"T">>
  /\ understock[2].name = <<" ", "h", "M">>
  /\ Added = {2}

\* C4: in a cycle whose two reads succeeded, the creation requests sent so
\* far are, in the order of the Source Reader, one for each product handled
\* that is not on the destination, each with quantity 1.0, the configured
\* list id and the product's name in its original case, trimmed, as note;
\* the cycle ends only when every product has been handled.
C4_AddRule ==
  InCycle =>
    LET todo == SelectSeq(SubSeq(understock, 1, idx), NotOnDestination) IN
    /\ Len(Posts) = Len(todo)
    /\ \A k \in 1..Len(todo) :
         Posts[k].json = [quantity |-> 1, shoppingListId |-> "L",
                          note |-> Strip(todo[k].name)]
    /\ pc = "sleep" => idx = Len(understock)

\* an empty lookup and the products " hM", "hT ": two requests, with the
\* notes "hM" and "hT"
C4_Witness ==
  /\ pc = "sleep"
  /\ mealie_items = EmptyDict
  /\ Len(understock) = 2
  /\ Len(Posts) = 2
  /\ Posts[1].json.note = <<"h", "M">>
  /\ Posts[2].json.note = <<"h", "T">>

\* C5: when the add for a product returned failure, no other add was called
\* for that product in the cycle, every later product handled so far that is
\* not on the destination had its add called, and the cycle does not end
\* before every product has been handled.
C5_FailedAddGoesOn ==
  InCycle =>
    \A k \in 1..Len(calls) :
      ~calls[k].ok =>
        /\ \A m \in 1..Len(calls) : calls[m].item = calls[k].item => m = k
        /\ \A j \in (calls[k].item + 1)..idx :
             NotOnDestination(understock[j]) => j \in Added
        /\ pc = "sleep" => idx = Len(understock)

\* the first add failed and the add for the second product was called
C5_Witness ==
  /\ pc = "sleep"
  /\ Len(calls) = 2
  /\ ~calls[1].ok
  /\ calls[1].item = 1 /\ calls[2].item = 2

\* C6: when the inventory query raised a transport error, the products of
\* the cycle are the empty sequence, no exception reached main, the
\* destination read of the cycle came first and succeeded, no creation
\* request is sent, and the cycle goes to its sleep.
C6_SourceFailureAbsorbed ==
  \A j \in 1..Len(http) :
    (IsVolatile(http[j]) /\ http[j].result = "ConnectionError") =>
      /\ understock = <<>>
      /\ exc = ""
      /\ j > 1
      /\ \A k \in 1..(j - 1) : IsGet(http[k]) /\ http[k].result = "ok"
      /\ \A k \in (j + 1)..Len(http) : IsSleep(http[k])
      /\ calls = <<>>
      /\ \/ pc = "sleep" /\ Len(http) = j
         \/ pc = "fetch" /\ page = 1 /\ Len(http) = j + 1

\* the inventory query failed although the lookup is not empty, and the
\* cycle is at its sleep
C6_Witness ==
  /\ pc = "sleep"
  /\ mealie_items # EmptyDict
  /\ IsVolatile(http[Len(http)])
  /\ http[Len(http)].result = "ConnectionError"

\* the page requests of the cycle, in the order sent
Gets == SelectSeq(http, IsGet)

\* the fetch of the cycle is under way, or has just returned its lookup
InFetch == pc \in {"fetch", "items", "source"} /\ http # <<>> /\ ~IsSleep(http[Len(http)])

\* the entries read so far that are on the requested list and have a display
\* text
Retained == {e \in seen : e.shoppingListId = "L" /\ DisplayOf(e) # <<>>}

ClaimedText(e) ==
  IF e.display # None /\ Strip(e.display[1]) # <<>> THEN e.display
  ELSE IF e.food # None /\ e.food[1].name # None THEN e.food[1].name
  ELSE None

\* C8: every entry read that is on the requested list is in the lookup under
\* the key of its display text, which is the display field if present and
\* not empty after trimming, otherwise the name of its food; an entry with
\* neither is not in the lookup.
C8_DisplayText ==
  pc \in {"items", "source"} =>
    \A e \in seen :
      e.shoppingListId = "L" =>
        IF ClaimedText(e) = None
        THEN \A k \in DOMAIN items_dict : items_dict[k].itemId # e.id
        ELSE Lower(Strip(ClaimedText(e)[1])) \in DOMAIN items_dict

\* C9: every call of the add sent exactly one creation request, and returned
\* success if and only if the request was answered with status 200 or 201;
\* for any other status and for a transport error it returned failure, and
\* no exception left the call.
C9_AddResult ==
  InCycle =>
    /\ Len(Posts) = Len(calls)
    /\ calls # <<>> => exc = ""
    /\ \A k \in 1..Len(calls) :
         /\ Posts[k].json.note = Strip(calls[k].item_name)
         /\ calls[k].ok <=> (Posts[k].outcome.raised = ""
                               /\ Posts[k].outcome.status \in {200, 201})

\* one add answered with 204 returned failure, the next answered with 201
\* returned success
C9_Witness ==
  /\ Len(calls) = 2
  /\ Posts[1].outcome.status = 204 /\ ~calls[1].ok
  /\ Posts[2].outcome.status = 201 /\ calls[2].ok

\* a transport error of the creation request gives failure
C9_WitnessTransport ==
  /\ Len(calls) = 1
  /\ Posts[1].outcome.raised = "ConnectionError" /\ ~calls[1].ok

\* the place of an event in the order of a cycle
Rank(e) ==
  CASE IsGet(e) -> 1
    [] IsVolatile(e) -> 2
    [] IsPost(e) -> 3
    [] IsSleep(e) -> 4

C10_WitnessAborted ==
  /\ pc = "fetch" /\ page = 1
  /\ Len(http) = 2
  /\ IsGet(http[1]) /\ http[1].result = "ConnectionError"
  /\ IsSleep(http[2])

\* the record of the missing-products list has a name that is not empty
HasName(m) == m.name # None /\ m.name[1] # <<>>

\* C13: after a successful inventory query the products are the {id, name}
\* pairs of the records of the missing-products list that have a non-empty
\* name, in the order of the list, an absent id kept as absent; a missing or
\* empty list gives the empty sequence.
C13_SourceMapping ==
  InCycle =>
    \A j \in 1..Len(http) :
      (IsVolatile(http[j]) /\ http[j].result = "") =>
        LET list  == http[j].missing_products
            raw   == IF list = None THEN <<>> ELSE list[1]
            named == SelectSeq(raw, HasName)
        IN understock = [k \in 1..Len(named) |->
                           [id |-> named[k].id, name |-> named[k].name[1]]]

\* of the list (record with an empty name, record without an id) the second
\* is the only product, its id absent
C13_Witness ==
  /\ InCycle
  /\ \E j \in 1..Len(http) :
       /\ IsVolatile(http[j]) /\ http[j].result = ""
       /\ http[j].missing_products # None
       /\ Len(http[j].missing_products[1]) = 2
       /\ http[j].missing_products[1][1].name = Some(<<>>)
  /\ Len(understock) = 1
  /\ understock[1].id = None
  /\ understock[1].name = <<" ", "h", "M">>

\* the step of the loop over the items that reads one entry
ReadStep ==
  pc = "items" /\ pc' = "items" /\ data'[1].todo = data[1].todo - 1

\* C14: the lookup holds one value for a key; each entry read that is
\* retained replaces the value under its key, whether that value came from
\* the same page or from an earlier one, with its own item id and its
\* display text in the original case, and leaves every other key as it was;
\* an entry that is not retained changes nothing.  So the value under a key
\* is always the retained entry read last for that key.
C14_LastWriteWins ==
  [][ReadStep =>
       LET e   == it'[1]
           key == Lower(Strip(DisplayOf(e)))
       IN IF e.shoppingListId = "L" /\ DisplayOf(e) # <<>>
          THEN /\ DOMAIN items_dict' = DOMAIN items_dict \cup {key}
               /\ items_dict'[key].itemId = e.id
               /\ items_dict'[key].display = DisplayOf(e)
               /\ \A k \in DOMAIN items_dict :
                    k # key => items_dict'[k] = items_dict[k]
          ELSE items_dict' = items_dict]_vars

\* on the second page the entry "hT" has replaced the entry "Ht " read
\* before under the key "ht"
C14_Witness ==
  /\ pc = "items" /\ page = 2
  /\ \E e \in seen : e.id = Some(<<"i1">>)
  /\ it # None /\ it[1].id = Some(<<"i2">>)
  /\ items_dict[<<"h", "t">>].itemId = Some(<<"i2">>)
  /\ items_dict[<<"h", "t">>].display = <<"h", "T">>

\* C16: every creation request carries a note that is not empty: a product
\* whose name is empty after trimming never causes an add, whatever the
\* lookup holds.
C16_NoBlankNote == \A k \in 1..Len(Posts) : Posts[k].json.note # <<>>

\* the probes of the health check, as the two services saw them
GrocyProbed == \E j \in 1..Len(http) : IsVolatile(http[j])
MealieProbed == \E j \in 1..Len(http) : IsGet(http[j])
GrocyReachable ==
  \E j \in 1..Len(http) : IsVolatile(http[j]) /\ http[j].result = ""
MealieReachable ==
  \E j \in 1..Len(http) : IsGet(http[j]) /\ http[j].result = "ok"

\* C12: when one invocation of the health check has ended, both services
\* were probed (the destination also when the probe of the source failed),
\* no creation request was sent, the aggregate status is healthy exactly
\* when both services were reachable, and the exit status is 0 exactly when
\* both were reachable.
C12_HealthCheck ==
  (pc \in {"exited", "crashed"} /\ exit_code # None) =>
    /\ GrocyProbed
    /\ MealieProbed
    /\ \A j \in 1..Len(http) : ~IsPost(http[j])
    /\ health # None
    /\ health[1].status = "healthy" <=> (GrocyReachable /\ MealieReachable)
    /\ exit_code = Some(0) <=> (GrocyReachable /\ MealieReachable)

\* the step sends a creation request
PostStep == Len(http') = Len(http) + 1 /\ IsPost(http'[Len(http')])

\* the program's own variables
prog ==
  <<pc, page, items_dict, data, it, seen, mealie_items, understock, idx,
    calls, http, exc>>

\* C15: over any sequence of cycles the entries of the destination service
\* only grow, and only by the entry of a creation request of that step;
\* the requests of the daemon are the page reads, the inventory read and
\* creation requests, nothing that deletes or changes; the inventory changes
\* only in steps that are not the daemon's.
C15_OnlyCreates ==
  [][/\ mealie \subseteq mealie'
     /\ mealie' # mealie =>
          /\ PostStep
          /\ mealie' = mealie \cup {Created(http'[Len(http')].json)}
     /\ grocy' # grocy => UNCHANGED prog
     /\ \A j \in 1..Len(http') :
          http'[j].op \in {"GET", "volatile", "POST", "sleep"}]_vars

\* a cycle has read an inventory without missing products and has ended
\* while the entry created earlier for the product "T" is still held
C15_Witness ==
  /\ pc = "sleep"
  /\ \E e \in mealie : e.id = Some(<<"n", "T">>)
  /\ grocy = <<>>
  /\ \E j \in 1..Len(http) :
       /\ IsVolatile(http[j]) /\ http[j].result = ""
       /\ http[j].missing_products = Some(<<>>)

\* the entry of an add with this note that succeeded in an earlier cycle is
\* held by the service
AddedEarlier(note) ==
  /\ \E e \in mealie : e.id = Some(<<"n">> \o note)
  /\ ~\E j \in 1..Len(http) :
        /\ IsPost(http[j])
        /\ http[j].json.note = note
        /\ AddResult(http[j].outcome)

\* C17: with a destination service that shows a created entry on the list
\* with the note as its display text, no creation request is sent for a
\* product whose add succeeded in an earlier cycle and whose entry is still
\* on the list.
C17_NoDuplicate ==
  [][PostStep => ~AddedEarlier(http'[Len(http')].json.note)]_vars

\* the inventory reports the product as missing
Understocked(m) == \E j \in 1..Len(grocy) : grocy[j] = m

\* an entry held by the service on the list represents the product
OnDestinationList(m) ==
  \E e \in mealie :
    /\ OnList(e, MEALIE_SHOPPING_LIST_ID)
    /\ DisplayOf(e) # <<>>
    /\ IsSubstring(Lower(Strip(m.name[1])), Lower(DisplayOf(e)))

\* the step gets an answer that is a failure: a page read or an inventory
\* read that raised, or a creation request that did not succeed
FailedAnswer ==
  /\ http' # http
  /\ http' # <<>>
  /\ LET e == http'[Len(http')] IN
     \/ IsGet(e) /\ e.result # "ok"
     \/ IsVolatile(e) /\ e.result # ""
     \/ IsPost(e) /\ ~AddResult(e.outcome)

\* the product "T" of the inventory
ProductT == Missing(Some(<<"p1">>), Some(<<"T">>))

\* C11: if from some time on both services answer every request
\* successfully, a product that stays understocked (here the product "T")
\* is eventually represented on the destination list.
C11_EventuallyRepresented ==
  (<>[][~FailedAnswer]_vars) =>
    ((<>[]Understocked(ProductT)) => <>OnDestinationList(ProductT))

\* the same, for the runs in which no exception leaves main: this holds
RepresentedUnlessCrashed ==
  (<>[][~FailedAnswer]_vars) =>
    ((<>[]Understocked(ProductT)) =>
       (<>OnDestinationList(ProductT) \/ <>(pc = "crashed")))

====
